---- MODULE Spec2Model ----
(***************************************************************************)
(* A model of app/main.py of vaultwarden-webdav: the backup pipeline       *)
(* (perform_backup), the GFS retention pass (apply_retention_policy), the  *)
(* restore pipeline (process_restore_file, download_and_restore), and the  *)
(* scheduler binding (schedule_backup_job, save_config).                   *)
(*                                                                         *)
(* Every pipeline run is a process r \in Runs whose position is pc[r]; one *)
(* action models one step of the function the run executes.  External      *)
(* collaborators (supervisorctl, sqlite3, the WebDAV server, the local     *)
(* file system) succeed or fail nondeterministically.                      *)
(***************************************************************************)
EXTENDS Integers, Sequences, FiniteSets, TLC

(***************************************************************************)
(* Bounds of the model.                                                    *)
(***************************************************************************)
NumRuns == 2          \* pipeline runs that may be in progress together
SpanDays == 400       \* days spanned by a one-per-day remote listing
GapTicks == 5         \* ticks a retention pass may lie after the last day
MaxStarted == 1       \* pipeline runs triggered in one behaviour
MaxTicks == 1         \* clock ticks that may pass after the initial state
Now0 == 10            \* the earliest clock (in ticks) of an initial state
LateGap == 20         \* ticks by which the other initial clock is later
TicksPerDay == 2      \* resolution of the clock: ticks per calendar day

Runs == 1..NumRuns

(***************************************************************************)
(* File names.  A name is the sequence of its '.'-separated segments, each *)
(* the sequence of its '_'-separated tokens; a token is a word or a digit  *)
(* string (w = "#") of value n.                                            *)
(***************************************************************************)
Word(w) == [w |-> w, n |-> 0]
Num(n) == [w |-> "#", n |-> n]
Seg(w) == <<Word(w)>>

\* str.endswith(".enc")
endswith_enc(name) == Len(name) >= 2 /\ name[Len(name)] = Seg("enc")

RECURSIVE replace_enc(_)
\* str.replace(".enc", ""): every ".enc" segment is dropped
replace_enc(name) ==
    IF Len(name) <= 1 THEN name
    ELSE LET rest == replace_enc(SubSeq(name, 1, Len(name) - 1))
         IN  IF name[Len(name)] = Seg("enc") THEN rest
             ELSE Append(rest, name[Len(name)])

\* name + ".enc"
append_enc(name) == Append(name, Seg("enc"))

\* "%Y%m%d_%H%M%S" of a clock value: the date token and the time token
get_current_time_str(t) == <<Num(t \div TicksPerDay), Num(t % TicksPerDay)>>

\* f"vw_backup_{timestamp}.tar.gz"
backup_name_of(t) ==
    << <<Word("vw"), Word("backup")>> \o get_current_time_str(t),
       Seg("tar"), Seg("gz") >>

\* os.path.join(TEMP_DIR, "db.sqlite3")
backup_db_path == << Seg("db"), Seg("sqlite3") >>

(***************************************************************************)
(* File contents.  t is the container format: "targz" a gzip-compressed    *)
(* tar, "trunc" one whose stream ends early after the members in entries,  *)
(* "tar" an uncompressed tar, "db" a database snapshot, "junk" anything    *)
(* else, "part" a partially written file.  key is the passphrase the bytes *)
(* were Fernet-encrypted under ("" for plaintext).  entries maps each      *)
(* member to its content version.                                          *)
(***************************************************************************)
NoEntries == [x \in {} |-> 0]
Plain(t, entries) == [t |-> t, entries |-> entries, key |-> ""]
PartialFile == Plain("part", NoEntries)

\* get_fernet_key: the key is a function of the passphrase alone
get_fernet_key(password) == password

\* Fernet(key).encrypt(data)
encrypt_file(file, password) == [file EXCEPT !.key = get_fernet_key(password)]

\* Fernet(key).decrypt(data) succeeds only on a token made under the same key
decrypt_ok(file, password) ==
    file.key # "" /\ file.key = get_fernet_key(password)
decrypt_file(file, password) == [file EXCEPT !.key = ""]

\* tarfile.is_tarfile: any readable tar, compressed or not
is_tarfile(file) == file.key = "" /\ file.t \in {"targz", "trunc", "tar"}

\* tarfile.open(..., "r:gz") succeeds only on a gzip stream
opens_as_gz(file) == file.key = "" /\ file.t \in {"targz", "trunc"}

(***************************************************************************)
(* Finite maps (directories: name -> content).                             *)
(***************************************************************************)
Put(f, k, v) == [x \in DOMAIN f \cup {k} |-> IF x = k THEN v ELSE f[x]]
Del(f, S) == [x \in DOMAIN f \ S |-> f[x]]
\* tar.extractall(path): members overwrite, everything else stays
Overlay(d, a) ==
    [x \in DOMAIN d \cup DOMAIN a |-> IF x \in DOMAIN a THEN a[x] ELSE d[x]]

(***************************************************************************)
(* Configuration values (backup_config.json).  A JSON value that is read   *)
(* as a number is absent, an integer, a string of digits or another        *)
(* string.                                                                 *)
(***************************************************************************)
Absent == [ty |-> "absent", n |-> 0]
IntV(n) == [ty |-> "int", n |-> n]
StrNum(n) == [ty |-> "str", n |-> n]
StrBad == [ty |-> "bad", n |-> 0]

Config(url, pw, maxb, hour, minute) ==
    [webdav_url |-> url, encryption_password |-> pw, max_backups |-> maxb,
     schedule_hour |-> hour, schedule_minute |-> minute]

\* load_config() of a missing or unreadable file: {}
EmptyConfig == Config(FALSE, "", Absent, Absent, Absent)

(***************************************************************************)
(* State.                                                                  *)
(***************************************************************************)
VARIABLES
    cfg,        \* the content of BACKUP_CONFIG_FILE
    service,    \* the supervised vaultwarden process: "running" | "stopped"
    dataDir,    \* DATA_DIR: entry -> content version
    scratch,    \* TEMP_DIR: name -> [file, by] (by: the run that wrote it)
    remote,     \* the WebDAV directory: name -> [type, file]
    now,        \* the clock, in ticks
    job,        \* the scheduler's jobs with id 'backup_job'
    started,    \* the number of pipeline runs triggered so far
    run         \* run[r]: the local state of pipeline run r

vars == <<cfg, service, dataDir, scratch, remote, now, job, started, run>>

\* The record of a retention pass that did not happen.
NoPass ==
    [listed |-> FALSE, backups |-> {}, delete |-> {}, fail |-> {}, gone |-> {}]

\* A run that has not been triggered.  The fields after notes are history:
\* what the run has done so far.  at is the clock its retention pass read,
\* raised the exception that left process_restore_file, foreign the scratch
\* files of another run it has read or removed.
IdleRun ==
    [pc |-> "idle", kind |-> "none", cfg |-> EmptyConfig,
     local |-> <<>>, work |-> <<>>, backup_name |-> <<>>, tmp_files |-> {},
     exc |-> "", notes |-> <<>>,
     stops |-> 0, starts |-> 0, stop_ok |-> FALSE, validated |-> FALSE,
     touched |-> FALSE, created |-> {}, data_before |-> NoEntries,
     archive |-> NoEntries, uploaded |-> {}, retention |-> NoPass,
     attempt |-> FALSE, at |-> 0, raised |-> "", foreign |-> {}]

Set(r, rec) == run' = [run EXCEPT ![r] = rec]

\* send_telegram_notify(msg, success): the message is the event and the
\* text of the exception it reports
Note(title, e, success) == [title |-> title, e |-> e, success |-> success]

\* Runs are numbered in the order they are triggered.
CanTrigger(r) ==
    /\ run[r].pc = "idle"
    /\ \A q \in Runs : q < r => run[q].pc # "idle"

\* No pipeline is running.
AllIdle == \A q \in Runs : run[q].pc = "idle"

\* A file written into TEMP_DIR by run r
WriteScratch(s, name, file, r) == Put(s, name, [file |-> file, by |-> r])

(***************************************************************************)
(* Restore: the routes.                                                    *)
(***************************************************************************)
\* POST /api/upload_restore: the upload is copied to TEMP_DIR/<filename>
\* and process_restore_file is queued as a background task.
upload_and_restore(r, name, file) ==
    /\ CanTrigger(r)
    /\ scratch' = WriteScratch(scratch, name, file, r)
    /\ Set(r, [IdleRun EXCEPT !.pc = "r_begin", !.kind = "upload",
                              !.local = name, !.created = {name},
                              !.data_before = dataDir])
    /\ started' = started + 1
    /\ UNCHANGED <<cfg, service, dataDir, remote, now, job>>

\* POST /api/restore: download_and_restore is queued as a background task.
restore_from_cloud(r, filename) ==
    /\ CanTrigger(r)
    /\ Set(r, [IdleRun EXCEPT !.pc = "d_begin", !.kind = "cloud",
                              !.local = filename, !.data_before = dataDir])
    /\ started' = started + 1
    /\ UNCHANGED <<cfg, service, dataDir, scratch, remote, now, job>>

(***************************************************************************)
(* download_and_restore                                                    *)
(***************************************************************************)
\* cfg = load_config(); WebDavClient(cfg["webdav_url"], ...) raises KeyError
\* when no endpoint is configured.
download_and_restore_begin(r) ==
    /\ run[r].pc = "d_begin"
    /\ IF cfg.webdav_url
       THEN Set(r, [run[r] EXCEPT !.pc = "d_download", !.cfg = cfg])
       ELSE Set(r, [run[r] EXCEPT !.pc = "d_except", !.cfg = cfg,
                                  !.exc = "KeyError"])
    /\ UNCHANGED <<cfg, service, dataDir, scratch, remote, now, job, started>>

\* client.download_file(remote_path, local_path): the local file is opened
\* for writing, then the transfer runs.  A failed transfer leaves what was
\* written so far (left); a failure to open the local file leaves nothing.
download_and_restore_download(r) ==
    /\ run[r].pc = "d_download"
    /\ LET name == run[r].local IN
       \/ /\ name \in DOMAIN remote
          /\ remote[name].type = "file"
          /\ scratch' = WriteScratch(scratch, name, remote[name].file, r)
          /\ Set(r, [run[r] EXCEPT !.pc = "r_begin",
                                   !.created = @ \cup {name}])
       \/ \E left \in BOOLEAN :
            /\ scratch' = IF left
                          THEN WriteScratch(scratch, name, PartialFile, r)
                          ELSE scratch
            /\ Set(r, [run[r] EXCEPT !.pc = "d_except",
                                     !.exc = "RemoteTransferError",
                                     !.created = IF left THEN @ \cup {name}
                                                 ELSE @])
    /\ UNCHANGED <<cfg, service, dataDir, remote, now, job, started>>

\* except Exception: log and notify; nothing is removed.
download_and_restore_except(r) ==
    /\ run[r].pc = "d_except"
    /\ Set(r, [run[r] EXCEPT
                 !.pc = "done",
                 !.notes = Append(@, Note("download_failed",
                                          IF run[r].raised # ""
                                          THEN run[r].raised ELSE run[r].exc,
                                          FALSE))])
    /\ UNCHANGED <<cfg, service, dataDir, scratch, remote, now, job, started>>

(***************************************************************************)
(* Service control: supervisorctl <verb> vaultwarden.  A command exits     *)
(* zero (ok) or non-zero; a failed restart may have stopped the process.   *)
(***************************************************************************)
supervisorctl_stop(ok) == IF ok THEN "stopped" ELSE service
supervisorctl_start(ok) == IF ok THEN "running" ELSE service
supervisorctl_restart(ok, down) ==
    IF ok THEN "running" ELSE IF down THEN "stopped" ELSE service

(***************************************************************************)
(* process_restore_file                                                    *)
(***************************************************************************)
\* cfg = load_config(); temp_restored_files = []; work_file = local_file_path
process_restore_file_begin(r) ==
    /\ run[r].pc = "r_begin"
    /\ Set(r, [run[r] EXCEPT !.pc = "r_decrypt", !.cfg = cfg,
                             !.work = run[r].local, !.tmp_files = {},
                             !.attempt = TRUE])
    /\ UNCHANGED <<cfg, service, dataDir, scratch, remote, now, job, started>>

\* 1. decrypt, when the name ends with ".enc"
process_restore_file_decrypt(r) ==
    /\ run[r].pc = "r_decrypt"
    /\ LET name == run[r].local
           pw == run[r].cfg.encryption_password
           out == replace_enc(name)
       IN
       IF ~endswith_enc(name)
       THEN /\ Set(r, [run[r] EXCEPT !.pc = "r_validate"])
            /\ UNCHANGED scratch
       ELSE IF pw = ""
       THEN /\ Set(r, [run[r] EXCEPT !.pc = "r_except",
                                     !.exc = "ValueError_no_password"])
            /\ UNCHANGED scratch
       ELSE IF name \notin DOMAIN scratch
       THEN /\ Set(r, [run[r] EXCEPT !.pc = "r_except",
                                     !.exc = "FileNotFoundError"])
            /\ UNCHANGED scratch
       ELSE IF ~decrypt_ok(scratch[name].file, pw)
       THEN /\ Set(r, [run[r] EXCEPT !.pc = "r_except",
                                     !.exc = "InvalidToken"])
            /\ UNCHANGED scratch
       ELSE /\ scratch' = WriteScratch(scratch, out,
                              decrypt_file(scratch[name].file, pw), r)
            /\ Set(r, [run[r] EXCEPT !.pc = "r_validate", !.work = out,
                                     !.tmp_files = @ \cup {out},
                                     !.created = @ \cup {out}])
    /\ UNCHANGED <<cfg, service, dataDir, remote, now, job, started>>

\* The step without its check: the service is stopped whatever the file is.
validate_unchecked(r) ==
    /\ run[r].pc = "r_validate"
    /\ Set(r, [run[r] EXCEPT
                 !.pc = "r_stop",
                 !.validated = /\ run[r].work \in DOMAIN scratch
                               /\ is_tarfile(scratch[run[r].work].file)])
    /\ UNCHANGED <<cfg, service, dataDir, scratch, remote, now, job, started>>

\* 2. if not tarfile.is_tarfile(work_file): raise ValueError
process_restore_file_validate(r) ==
    /\ run[r].pc = "r_validate"
    /\ LET w == run[r].work IN
       IF w \notin DOMAIN scratch
       THEN Set(r, [run[r] EXCEPT !.pc = "r_except",
                                  !.exc = "FileNotFoundError"])
       ELSE IF ~is_tarfile(scratch[w].file)
       THEN Set(r, [run[r] EXCEPT !.pc = "r_except",
                                  !.exc = "ValueError_not_tar"])
       ELSE Set(r, [run[r] EXCEPT !.pc = "r_stop", !.validated = TRUE])
    /\ UNCHANGED <<cfg, service, dataDir, scratch, remote, now, job, started>>

\* subprocess.run(["supervisorctl", "stop", "vaultwarden"], check=False):
\* the exit status is not looked at.
process_restore_file_stop(r) ==
    /\ run[r].pc = "r_stop"
    /\ \E ok \in BOOLEAN :
         /\ service' = supervisorctl_stop(ok)
         /\ Set(r, [run[r] EXCEPT !.pc = "r_extract", !.stops = @ + 1,
                                  !.stop_ok = ok])
    /\ UNCHANGED <<cfg, dataDir, scratch, remote, now, job, started>>

\* with tarfile.open(work_file, "r:gz") as tar: tar.extractall(path=DATA_DIR)
\* A stream that ends early raises after its readable members were written.
process_restore_file_extract(r) ==
    /\ run[r].pc = "r_extract"
    /\ LET w == run[r].work IN
       IF w \notin DOMAIN scratch
       THEN /\ Set(r, [run[r] EXCEPT !.pc = "r_except",
                                     !.exc = "FileNotFoundError"])
            /\ UNCHANGED dataDir
       ELSE LET file == scratch[w].file IN
            IF ~opens_as_gz(file)
            THEN /\ Set(r, [run[r] EXCEPT !.pc = "r_except",
                                          !.exc = "ReadError"])
                 /\ UNCHANGED dataDir
            ELSE /\ dataDir' = Overlay(dataDir, file.entries)
                 /\ Set(r, [run[r] EXCEPT
                              !.pc = IF file.t = "trunc" THEN "r_except"
                                     ELSE "r_restart",
                              !.exc = IF file.t = "trunc" THEN "EOFError"
                                      ELSE @,
                              !.touched = @ \/ DOMAIN file.entries # {},
                              !.archive = file.entries])
    /\ UNCHANGED <<cfg, service, scratch, remote, now, job, started>>

\* restart_vaultwarden(): supervisorctl restart with check=True; a non-zero
\* exit is logged and re-raised.  On success: send_telegram_notify(...).
restart_vaultwarden(r) ==
    \E ok \in BOOLEAN, down \in BOOLEAN :
        /\ ok => down
        /\ service' = supervisorctl_restart(ok, down)
        /\ Set(r, [run[r] EXCEPT
                     !.starts = @ + 1,
                     !.pc = IF ok THEN "r_finally" ELSE "r_except",
                     !.exc = IF ok THEN @ ELSE "CalledProcessError",
                     !.notes = IF ok
                               THEN Append(@, Note("restored", "", TRUE))
                               ELSE @])

\* 3. restart the service
process_restore_file_restart(r) ==
    /\ run[r].pc = "r_restart"
    /\ restart_vaultwarden(r)
    /\ UNCHANGED <<cfg, dataDir, scratch, remote, now, job, started>>

\* The except clause without its start command.
except_without_start(r, ok) ==
    /\ UNCHANGED service
    /\ Set(r, [run[r] EXCEPT
                 !.pc = "r_finally",
                 !.notes = Append(@, Note("restore_failed", run[r].exc, FALSE))])

\* The command the except clause issues after logging and notifying.
except_start(r, ok) ==
    /\ service' = supervisorctl_start(ok)
    /\ Set(r, [run[r] EXCEPT
                 !.pc = "r_finally", !.starts = @ + 1,
                 !.notes = Append(@, Note("restore_failed", run[r].exc, FALSE))])

\* except Exception: log, notify,
\* subprocess.run(["supervisorctl", "start", "vaultwarden"], check=False)
process_restore_file_except(r) ==
    /\ run[r].pc = "r_except"
    /\ \E ok \in BOOLEAN : except_start(r, ok)
    /\ UNCHANGED <<cfg, dataDir, scratch, remote, now, job, started>>

\* The files the finally clause removes, in its order: local_file_path,
\* then the members of temp_restored_files.  bad is the file whose
\* os.remove raises (<<>> for none): the files before it are removed.
finally_removed(r, bad) ==
    IF bad = <<>> THEN {run[r].local} \cup run[r].tmp_files
    ELSE IF bad = run[r].local THEN {}
    ELSE {run[r].local}

\* finally: remove local_file_path and every temp_restored_files member
\* that exists.  os.remove is not guarded: what it raises leaves
\* process_restore_file, to the background-task runner (upload) or to the
\* except clause of download_and_restore (cloud).
process_restore_file_finally(r) ==
    /\ run[r].pc = "r_finally"
    /\ \E bad \in {<<>>} \cup (({run[r].local} \cup run[r].tmp_files)
                                 \cap DOMAIN scratch) :
         /\ scratch' = Del(scratch, finally_removed(r, bad))
         /\ Set(r, [run[r] EXCEPT
                      !.pc = IF bad = <<>> THEN "done"
                             ELSE IF run[r].kind = "cloud" THEN "d_except"
                             ELSE "raised",
                      !.raised = IF bad = <<>> THEN @ ELSE "OSError",
                      !.foreign = @ \cup
                          {n \in finally_removed(r, bad) \cap DOMAIN scratch :
                              scratch[n].by # r}])
    /\ UNCHANGED <<cfg, service, dataDir, remote, now, job, started>>

(***************************************************************************)
(* GFS retention: apply_retention_policy                                   *)
(***************************************************************************)
\* A timestamp is a number of ticks.  parse_backup_date builds it with
\* dt.replace(tzinfo=TZ_CN), which for a pytz zone attaches the zone's local
\* mean time (+8:06), while now = datetime.now(TZ_CN) carries +8:00: an
\* instant parsed from a name lies LmtSkew earlier than the instant it was
\* formatted at.  Instants are counted in units of 1/SkewUnits tick; the
\* skew is longer than a tick (the names resolve seconds, the skew is six
\* minutes) and shorter than a day.
SkewUnits == 2
LmtSkew == 3
instant_now(t) == t * SkewUnits
instant_parsed(t) == t * SkewUnits - LmtSkew
DayUnits == TicksPerDay * SkewUnits

\* "vw_backup_" in name
contains_vw_backup(name) ==
    \E i \in 1..Len(name) : \E j \in 1..Len(name[i]) :
        /\ j + 2 <= Len(name[i])
        /\ name[i][j] = Word("vw")
        /\ name[i][j + 1] = Word("backup")

\* datetime.strptime(f"{parts[2]}_{parts[3]}", "%Y%m%d_%H%M%S") succeeds on
\* a date token and a time-of-day token
strptime_ok(d, t) == d.w = "#" /\ t.w = "#" /\ d.n >= 0 /\ t.n \in 0..(TicksPerDay - 1)

\* parse_backup_date(filename) is not None
parse_ok(name) ==
    /\ Len(name) >= 1
    /\ Len(name[1]) >= 4          \* len(parts) = 3 raises IndexError
    /\ strptime_ok(name[1][3], name[1][4])

\* parse_backup_date(filename), when it is not None
parse_backup_date(name) == name[1][3].n * TicksPerDay + name[1][4].n

\* the list `backups`: files whose name holds "vw_backup_" and parses
Backups(rem) ==
    {n \in DOMAIN rem : /\ rem[n].type # "directory"
                        /\ contains_vw_backup(n)
                        /\ parse_ok(n)}

keep_days == 7
keep_weeks == 4
keep_months == 12

\* (now - b['dt']).days
age_days(t, name) ==
    (instant_now(t) - instant_parsed(parse_backup_date(name))) \div DayUnits

\* [b for b in backups if start_window <= b['dt'] < end_window]
candidates(B, t, startDays, endDays) ==
    {b \in B : /\ instant_now(t) - startDays * DayUnits
                    <= instant_parsed(parse_backup_date(b))
               /\ instant_parsed(parse_backup_date(b))
                    < instant_now(t) - endDays * DayUnits}

\* backups.sort(key=dt, reverse=True) is stable: among equal timestamps the
\* listing order decides.  first holds, per timestamp, the name listed
\* first.
Firsts(B) ==
    {F \in SUBSET B :
        \A b \in B : Cardinality({f \in F : parse_backup_date(f)
                                             = parse_backup_date(b)}) = 1}

\* candidates[0] of a non-empty candidate list
newest(C, first) ==
    CHOOSE c \in C \cap first :
        \A d \in C : parse_backup_date(d) <= parse_backup_date(c)

to_keep(B, t, first) ==
    {b \in B : age_days(t, b) < keep_days}
    \cup {newest(candidates(B, t, 7 * (i + 1), 7 * i), first) :
            i \in {k \in 0..(keep_weeks - 1) :
                     candidates(B, t, 7 * (k + 1), 7 * k) # {}}}
    \cup {newest(candidates(B, t, 30 * (i + 1), 30 * i), first) :
            i \in {k \in 0..(keep_months - 1) :
                     candidates(B, t, 30 * (k + 1), 30 * k) # {}}}

\* The delete-set with the oldest backup always added to it.
to_delete_oldest_too(B, t, first) ==
    (B \ to_keep(B, t, first))
    \cup {b \in B : \A c \in B : parse_backup_date(b) <= parse_backup_date(c)}

\* The delete-set that is every backup.
to_delete_all(B, t, first) == B

to_delete(B, t, first) == B \ to_keep(B, t, first)

\* for name in to_delete: client.remove(full_path), inside one try: the
\* first remove that raises ends the loop.  to_delete is a set, iterated in
\* an arbitrary order: gone is what was removed before the loop ended.
removed_sets(D, fail) ==
    IF D \cap fail = {} THEN {D} ELSE SUBSET (D \ fail)

\* The passes over the backups B whose delete-set is D: names of fail
\* cannot be removed.
passes_over(B, D) ==
    UNION {{[listed |-> TRUE, backups |-> B, delete |-> D,
             fail |-> fail, gone |-> gone] : gone \in removed_sets(D, fail)}
           : fail \in SUBSET D}

\* One pass over the remote directory rem at time t: client.ls may raise
\* (the pass does nothing).  pass = [listed, backups, delete, fail, gone].
apply_retention_policy(rem, t) ==
    {NoPass}
    \cup UNION {passes_over(Backups(rem), to_delete(Backups(rem), t, first))
                : first \in Firsts(Backups(rem))}
(***************************************************************************)
(* Backup: the triggers.                                                   *)
(***************************************************************************)
\* POST /api/backup/now: perform_backup is queued as a background task.
trigger_backup_manual(r) ==
    /\ CanTrigger(r)
    /\ Set(r, [IdleRun EXCEPT !.pc = "b_begin", !.kind = "manual",
                              !.data_before = dataDir])
    /\ started' = started + 1
    /\ UNCHANGED <<cfg, service, dataDir, scratch, remote, now, job>>

\* The cron trigger of 'backup_job' fires: the scheduler calls
\* perform_backup, unless an instance of the job is still running
\* (max_instances = 1).
scheduled_backup(r) ==
    /\ CanTrigger(r)
    /\ job # {}
    /\ \A q \in Runs : run[q].kind = "scheduled" => run[q].pc = "done"
    /\ Set(r, [IdleRun EXCEPT !.pc = "b_begin", !.kind = "scheduled",
                              !.data_before = dataDir])
    /\ started' = started + 1
    /\ UNCHANGED <<cfg, service, dataDir, scratch, remote, now, job>>

(***************************************************************************)
(* perform_backup                                                          *)
(***************************************************************************)
\* The entries of DATA_DIR the archive takes besides the database snapshot.
BackupItems ==
    {"attachments", "sends", "rsa_key.pem", "rsa_key.pub.pem", "config.json",
     "data.json", "icon_cache"}

\* The members of names that lie in TEMP_DIR and were written by a run
\* other than r.
written_by_other(r, names) ==
    {n \in names \cap DOMAIN scratch : scratch[n].by # r}

\* The first step without its test of webdav_url.
begin_unconditional(r) ==
    /\ run[r].pc = "b_begin"
    /\ Set(r, [run[r] EXCEPT !.pc = "b_export", !.cfg = cfg,
                             !.backup_name = backup_name_of(now),
                             !.local = backup_name_of(now),
                             !.work = backup_name_of(now),
                             !.tmp_files = {backup_name_of(now)}])
    /\ UNCHANGED <<cfg, service, dataDir, scratch, remote, now, job, started>>

\* cfg = load_config(); without webdav_url the run returns.  Otherwise the
\* archive name is made from the clock and tar_path joins tmp_files.
perform_backup_begin(r) ==
    /\ run[r].pc = "b_begin"
    /\ IF ~cfg.webdav_url
       THEN Set(r, [run[r] EXCEPT !.pc = "done", !.cfg = cfg])
       ELSE Set(r, [run[r] EXCEPT !.pc = "b_export", !.cfg = cfg,
                                  !.backup_name = backup_name_of(now),
                                  !.local = backup_name_of(now),
                                  !.work = backup_name_of(now),
                                  !.tmp_files = {backup_name_of(now)}])
    /\ UNCHANGED <<cfg, service, dataDir, scratch, remote, now, job, started>>

\* 1. sqlite3 <db> ".backup '<backup_db_path>'" with check=True, when the
\* database exists; backup_db_path joins tmp_files after the command
\* succeeded.  A failed command may leave what it wrote so far (left).
perform_backup_export(r) ==
    /\ run[r].pc = "b_export"
    /\ IF "db.sqlite3" \notin DOMAIN dataDir
       THEN /\ Set(r, [run[r] EXCEPT !.pc = "b_pack"])
            /\ UNCHANGED scratch
       ELSE \/ /\ scratch' = WriteScratch(scratch, backup_db_path,
                               Plain("db", [x \in {"db.sqlite3"} |-> dataDir[x]]), r)
               /\ Set(r, [run[r] EXCEPT !.pc = "b_pack",
                                        !.tmp_files = @ \cup {backup_db_path},
                                        !.created = @ \cup {backup_db_path}])
            \/ \E left \in BOOLEAN :
                 /\ scratch' = IF left
                               THEN WriteScratch(scratch, backup_db_path,
                                                 PartialFile, r)
                               ELSE scratch
                 /\ Set(r, [run[r] EXCEPT
                              !.pc = "b_except", !.exc = "CalledProcessError",
                              !.created = IF left THEN @ \cup {backup_db_path}
                                          ELSE @])
    /\ UNCHANGED <<cfg, service, dataDir, remote, now, job, started>>

\* The members tarfile writes: whatever lies at backup_db_path as
\* db.sqlite3 (version 0: not a database snapshot), and the BackupItems
\* that exist.
packed(s, d) ==
    LET items == [x \in BackupItems \cap DOMAIN d |-> d[x]]
        snap == IF backup_db_path \notin DOMAIN s THEN NoEntries
                ELSE [x \in {"db.sqlite3"} |->
                        IF s[backup_db_path].file.t = "db"
                        THEN s[backup_db_path].file.entries[x] ELSE 0]
    IN  Overlay(items, snap)

\* The packing step whose I/O error does not end the run.
pack_failure_ignored(r) ==
    /\ run[r].pc = "b_pack"
    /\ \/ /\ scratch' = WriteScratch(scratch, run[r].local,
                           Plain("targz", packed(scratch, dataDir)), r)
          /\ Set(r, [run[r] EXCEPT !.pc = "b_encrypt",
                                   !.created = @ \cup {run[r].local},
                                   !.archive = packed(scratch, dataDir)])
       \/ /\ scratch' = WriteScratch(scratch, run[r].local, PartialFile, r)
          /\ Set(r, [run[r] EXCEPT !.pc = "b_encrypt", !.exc = "OSError",
                                   !.created = @ \cup {run[r].local}])
    /\ UNCHANGED <<cfg, service, dataDir, remote, now, job, started>>

\* 2. with tarfile.open(tar_path, "w:gz") as tar: tar.add(...)
\* An I/O error leaves the part of the archive written so far.
perform_backup_pack(r) ==
    /\ run[r].pc = "b_pack"
    /\ \/ /\ scratch' = WriteScratch(scratch, run[r].local,
                           Plain("targz", packed(scratch, dataDir)), r)
          /\ Set(r, [run[r] EXCEPT !.pc = "b_encrypt",
                                   !.created = @ \cup {run[r].local},
                                   !.archive = packed(scratch, dataDir),
                                   !.foreign = @ \cup
                                       written_by_other(r, {backup_db_path})])
       \/ /\ scratch' = WriteScratch(scratch, run[r].local, PartialFile, r)
          /\ Set(r, [run[r] EXCEPT !.pc = "b_except", !.exc = "OSError",
                                   !.created = @ \cup {run[r].local}])
    /\ UNCHANGED <<cfg, service, dataDir, remote, now, job, started>>

\* The encryption step that leaves the archive as it is.
encrypt_skipped(r) ==
    /\ run[r].pc = "b_encrypt"
    /\ Set(r, [run[r] EXCEPT !.pc = "b_upload"])
    /\ UNCHANGED <<cfg, service, dataDir, scratch, remote, now, job, started>>

\* 3. with a passphrase: upload_path = encrypt_file(tar_path, password),
\* which joins tmp_files once encrypt_file returned; backup_name += ".enc".
\* A failing write may leave what was written so far (left).
perform_backup_encrypt(r) ==
    /\ run[r].pc = "b_encrypt"
    /\ LET pw == run[r].cfg.encryption_password
           tar == run[r].local
           out == append_enc(tar)
       IN
       IF pw = ""
       THEN /\ Set(r, [run[r] EXCEPT !.pc = "b_upload"])
            /\ UNCHANGED scratch
       ELSE IF tar \notin DOMAIN scratch
       THEN /\ Set(r, [run[r] EXCEPT !.pc = "b_except",
                                     !.exc = "FileNotFoundError"])
            /\ UNCHANGED scratch
       ELSE \/ /\ scratch' = WriteScratch(scratch, out,
                               encrypt_file(scratch[tar].file, pw), r)
               /\ Set(r, [run[r] EXCEPT
                            !.pc = "b_upload", !.work = out,
                            !.backup_name = append_enc(@),
                            !.tmp_files = @ \cup {out},
                            !.created = @ \cup {out},
                            !.foreign = @ \cup written_by_other(r, {tar})])
            \/ \E left \in BOOLEAN :
                 /\ scratch' = IF left
                               THEN WriteScratch(scratch, out, PartialFile, r)
                               ELSE scratch
                 /\ Set(r, [run[r] EXCEPT
                              !.pc = "b_except", !.exc = "OSError",
                              !.created = IF left THEN @ \cup {out} ELSE @])
    /\ UNCHANGED <<cfg, service, dataDir, remote, now, job, started>>

\* 4. client.upload_file(upload_path, remote_path); a failure to create the
\* remote directory is only logged.
perform_backup_upload(r) ==
    /\ run[r].pc = "b_upload"
    /\ LET up == run[r].work IN
       IF up \notin DOMAIN scratch
       THEN /\ Set(r, [run[r] EXCEPT !.pc = "b_except",
                                     !.exc = "FileNotFoundError"])
            /\ UNCHANGED remote
       ELSE \/ /\ remote' = Put(remote, run[r].backup_name,
                                [type |-> "file", file |-> scratch[up].file])
               /\ Set(r, [run[r] EXCEPT !.pc = "b_retention",
                                        !.uploaded = @ \cup {run[r].backup_name},
                                        !.foreign = @ \cup
                                            written_by_other(r, {up})])
            \/ /\ Set(r, [run[r] EXCEPT !.pc = "b_except",
                                        !.exc = "RemoteTransferError"])
               /\ UNCHANGED remote
    /\ UNCHANGED <<cfg, service, dataDir, scratch, now, job, started>>

\* 5. apply_retention_policy(client, remote_dir), which catches whatever it
\* raises, then send_telegram_notify(...).
perform_backup_retention(r) ==
    /\ run[r].pc = "b_retention"
    /\ \E pass \in apply_retention_policy(remote, now) :
         /\ remote' = Del(remote, pass.gone)
         /\ Set(r, [run[r] EXCEPT
                      !.pc = "b_finally", !.retention = pass, !.at = now,
                      !.notes = Append(@, Note("backup_uploaded", "", TRUE))])
    /\ UNCHANGED <<cfg, service, dataDir, scratch, now, job, started>>

\* except Exception: log and notify
perform_backup_except(r) ==
    /\ run[r].pc = "b_except"
    /\ Set(r, [run[r] EXCEPT
                 !.pc = "b_finally",
                 !.notes = Append(@, Note("backup_failed", run[r].exc, FALSE))])
    /\ UNCHANGED <<cfg, service, dataDir, scratch, remote, now, job, started>>

\* finally: every member of tmp_files that exists is removed
perform_backup_finally(r) ==
    /\ run[r].pc = "b_finally"
    /\ scratch' = Del(scratch, run[r].tmp_files)
    /\ Set(r, [run[r] EXCEPT
                 !.pc = "done",
                 !.foreign = @ \cup written_by_other(r, run[r].tmp_files)])
    /\ UNCHANGED <<cfg, service, dataDir, remote, now, job, started>>

(***************************************************************************)
(* Scheduler binding.                                                      *)
(***************************************************************************)
\* int(config.get(key, default)) does not raise
int_ok(v) == v.ty \in {"absent", "int", "str"}
\* int(config.get(key, default))
int_of(v, default) == IF v.ty = "absent" THEN default ELSE v.n

\* CronTrigger(hour=hour, minute=minute) does not raise
CronTrigger_ok(hour, minute) == hour \in 0..23 /\ minute \in 0..59

\* schedule_backup_job(config) returns without raising
schedule_ok(config) ==
    /\ int_ok(config.schedule_hour)
    /\ int_ok(config.schedule_minute)
    /\ CronTrigger_ok(int_of(config.schedule_hour, 3),
                      int_of(config.schedule_minute, 0))

\* schedule_backup_job(config): the jobs with id 'backup_job' afterwards.
\* The job is removed first; int() and CronTrigger() may raise before
\* add_job is reached.
schedule_backup_job(jobs, config) ==
    IF schedule_ok(config)
    THEN {[hour |-> int_of(config.schedule_hour, 3),
           minute |-> int_of(config.schedule_minute, 0)]}
    ELSE {}

\* save_config(config): write the file, then schedule_backup_job(config)
\* inside try/except (a failure is logged).
save_config(config) ==
    /\ cfg' = config
    /\ job' = schedule_backup_job(job, config)
    /\ UNCHANGED <<service, dataDir, scratch, remote, now, started, run>>

\* The clocks of the initial states: day 5, and LateGap ticks later.
InitNows == {Now0, Now0 + LateGap}

\* The clocks of a retention pass over a one-per-day listing: from the last
\* tick of the last listed day on.
LastTick == (SpanDays + 1) * TicksPerDay - 1
GfsNows == LastTick .. (LastTick + GapTicks)

\* Time passes.
Tick ==
    /\ \E b \in InitNows \cup GfsNows : b <= now /\ now < b + MaxTicks
    /\ now' = now + 1
    /\ UNCHANGED <<cfg, service, dataDir, scratch, remote, job, started, run>>

(***************************************************************************)
(* Initial states and inputs.                                              *)
(***************************************************************************)
\* vw_backup_<day>_<first tick of the day>.tar.gz
DayName(d) == backup_name_of(d * TicksPerDay)

EntriesV(names, v) == [x \in names |-> v]
Archive2 == Plain("targz", EntriesV({"db.sqlite3", "attachments"}, 2))

\* DATA_DIR before any run: a fresh install, or a populated directory that
\* also holds a write-ahead log no archive contains.
DataDirs ==
    {NoEntries, EntriesV({"db.sqlite3", "attachments", "db.sqlite3-wal"}, 1)}

\* The remote directory: backups of days 1..4 (an uncompressed tar, two
\* encrypted archives, a plain archive), with or without a subdirectory and
\* two unrelated files.
RemoteBackups ==
    [n \in {DayName(1), append_enc(DayName(2)), append_enc(DayName(3)),
            DayName(4)} |->
        [type |-> "file",
         file |-> IF n = DayName(1)
                  THEN Plain("tar", EntriesV({"db.sqlite3"}, 2))
                  ELSE IF n = append_enc(DayName(2))
                  THEN encrypt_file(Archive2, "Q")
                  ELSE IF n = append_enc(DayName(3))
                  THEN encrypt_file(Archive2, "P")
                  ELSE Archive2]]
OldDirName == << <<Word("vw"), Word("backup"), Word("old")>> >>
NotesName == << Seg("notes"), Seg("txt") >>
\* export_db_<day 2>_<tick 0>_vw_backup_copy.sql: a file that is no backup
\* archive, named with a date and a time in its third and fourth fields.
ExportName ==
    << <<Word("export"), Word("db"), Num(2), Num(0), Word("vw"),
         Word("backup"), Word("copy")>>, Seg("sql") >>
RemoteMixed ==
    Put(Put(Put(RemoteBackups, OldDirName,
                [type |-> "directory", file |-> Plain("junk", NoEntries)]),
            NotesName, [type |-> "file", file |-> Plain("junk", NoEntries)]),
        ExportName, [type |-> "file", file |-> Plain("junk", NoEntries)])
Remotes == {NoEntries, RemoteBackups, RemoteMixed}

\* A name the remote directory does not hold.
MissingName == << Seg("missing"), Seg("tar"), Seg("gz") >>

\* Uploads offered to /api/upload_restore: <<filename, content>>.
UploadName == << Seg("upload"), Seg("tar"), Seg("gz") >>
Uploads ==
    {<<UploadName, Archive2>>,
     <<UploadName, Plain("junk", NoEntries)>>,
     <<UploadName, Plain("trunc", EntriesV({"db.sqlite3"}, 2))>>,
     <<append_enc(UploadName), encrypt_file(Archive2, "P")>>,
     <<append_enc(UploadName), Archive2>>}

\* Configurations of the pipelines (the schedule left at its default).
PipelineConfigs ==
    {Config(url, pw, IntV(3), Absent, Absent) :
        url \in BOOLEAN, pw \in {"", "P"}}

Init ==
    /\ cfg \in PipelineConfigs
    /\ service = "running"
    /\ dataDir \in DataDirs
    /\ scratch = NoEntries
    /\ remote \in Remotes
    /\ now \in InitNows
    /\ job = schedule_backup_job({}, cfg)
    /\ started = 0
    /\ run = [r \in Runs |-> IdleRun]

\* A step of pipeline run r.
Step(r) ==
    \/ download_and_restore_begin(r)
    \/ download_and_restore_download(r)
    \/ download_and_restore_except(r)
    \/ process_restore_file_begin(r)
    \/ process_restore_file_decrypt(r)
    \/ process_restore_file_validate(r)
    \/ process_restore_file_stop(r)
    \/ process_restore_file_extract(r)
    \/ process_restore_file_restart(r)
    \/ process_restore_file_except(r)
    \/ process_restore_file_finally(r)
    \/ perform_backup_begin(r)
    \/ perform_backup_export(r)
    \/ perform_backup_pack(r)
    \/ perform_backup_encrypt(r)
    \/ perform_backup_upload(r)
    \/ perform_backup_retention(r)
    \/ perform_backup_except(r)
    \/ perform_backup_finally(r)

\* A pipeline is triggered.
Trigger(r) ==
    \/ trigger_backup_manual(r)
    \/ scheduled_backup(r)
    \/ \E f \in DOMAIN remote \cup {MissingName} : restore_from_cloud(r, f)
    \/ \E u \in Uploads : upload_and_restore(r, u[1], u[2])

\* The background task (or the scheduler's call) has returned; its record
\* is dropped.
Return(r) ==
    /\ run[r].pc \in {"done", "raised"}
    /\ Set(r, IdleRun)
    /\ UNCHANGED <<cfg, service, dataDir, scratch, remote, now, job, started>>

\* Pipelines run one after the other.
Next ==
    \/ \E r \in Runs : Step(r)
    \/ \E r \in Runs : started < MaxStarted /\ AllIdle /\ Trigger(r)
    \/ \E r \in Runs : Return(r)
    \/ Tick

Spec == Init /\ [][Next]_vars

(***************************************************************************)
(* Concurrent pipelines: background tasks run on worker threads and the    *)
(* scheduler on its own thread, and nothing in main.py serialises them.    *)
(* Every run slot is used once.                                            *)
(***************************************************************************)
InitConc ==
    /\ cfg = Config(TRUE, "P", IntV(3), Absent, Absent)
    /\ service = "running"
    /\ dataDir = EntriesV({"db.sqlite3", "attachments", "db.sqlite3-wal"}, 1)
    /\ scratch = NoEntries
    /\ remote = RemoteBackups
    /\ now = Now0
    /\ job = schedule_backup_job({}, cfg)
    /\ started = 0
    /\ run = [r \in Runs |-> IdleRun]

NextConc ==
    \/ \E r \in Runs : Step(r)
    \/ \E r \in Runs : Trigger(r)

SpecConc == InitConc /\ [][NextConc]_vars

(***************************************************************************)
(* Schedule updates: POST /api/config calls save_config.                   *)
(***************************************************************************)
ScheduleHours == {Absent, IntV(0), IntV(3), IntV(23), IntV(24), StrNum(4), StrBad}
ScheduleMinutes == {Absent, IntV(0), IntV(59), IntV(60), StrBad}
ScheduleConfigs ==
    {Config(url, pw, IntV(3), hour, minute) :
        url \in BOOLEAN, pw \in {"", "P"},
        hour \in ScheduleHours, minute \in ScheduleMinutes}

NextSchedule == \E c \in ScheduleConfigs : save_config(c)

SpecSchedule == Init /\ [][NextSchedule]_vars

(***************************************************************************)
(* The retention pass on its own: apply_retention_policy called over a     *)
(* listing of one backup per day, SpanDays long, against a remote store    *)
(* whose ls and remove succeed.  Run slot r records the r-th pass.         *)
(***************************************************************************)
\* One backup per day for the days 1..SpanDays, each taken at tick tod of
\* its day.
DailyListing(tod) ==
    [n \in {backup_name_of(d * TicksPerDay + tod) : d \in 1..SpanDays} |->
        [type |-> "file", file |-> Archive2]]

\* apply_retention_policy(client, remote_dir).  The timestamps of the
\* listing are distinct, so every name is the first listed of its timestamp.
retention_pass(r) ==
    /\ CanTrigger(r)
    /\ LET B == Backups(remote)
           D == to_delete(B, now, B)
       IN  /\ remote' = Del(remote, D)
           /\ Set(r, [IdleRun EXCEPT
                        !.pc = "done", !.kind = "retention", !.at = now,
                        !.retention = [listed |-> TRUE, backups |-> B,
                                       delete |-> D, fail |-> {},
                                       gone |-> D]])
    /\ UNCHANGED <<cfg, service, dataDir, scratch, now, job, started>>

InitGFS ==
    /\ cfg = Config(TRUE, "", IntV(3), Absent, Absent)
    /\ service = "running"
    /\ dataDir = NoEntries
    /\ scratch = NoEntries
    /\ remote \in {DailyListing(tod) : tod \in 0..(TicksPerDay - 1)}
    /\ now \in GfsNows
    /\ job = schedule_backup_job({}, cfg)
    /\ started = 0
    /\ run = [r \in Runs |-> IdleRun]

NextGFS ==
    \/ \E r \in Runs : retention_pass(r)
    \/ Tick

SpecGFS == InitGFS /\ [][NextGFS]_vars

(***************************************************************************)
(* Properties.                                                             *)
(***************************************************************************)
Restores == {r \in Runs : run[r].attempt}
Finished(r) == run[r].pc \in {"done", "raised"}

\* C1 as stated: every finished restore attempt has issued the start/restart
\* command exactly once, whatever its exit path (restart failure included).
C1_StartExactlyOnce ==
    \A r \in Restores : Finished(r) => run[r].starts = 1

\* C1, amended: every finished restore attempt has issued start/restart at
\* least once: exactly once on every exit path but restart failure, and
\* exactly twice (the failed restart, then one start) when the restart
\* command failed.
C1_StartOnceOrRetried ==
    \A r \in Restores :
        Finished(r) =>
            run[r].starts = IF run[r].exc = "CalledProcessError" THEN 2 ELSE 1

\* C1, witness: a restore attempt whose restart failed has finished.
C1_RestartFailed ==
    \E r \in Restores :
        Finished(r) /\ run[r].exc = "CalledProcessError" /\ run[r].starts = 2

\* The exceptions raised before the service is touched: missing passphrase,
\* decryption failure, validation failure.
EarlyFailures == {"ValueError_no_password", "InvalidToken", "ValueError_not_tar"}

C4_StopFailureAborts ==
    \A r \in Restores :
        (run[r].stops > 0 /\ ~run[r].stop_ok) =>
            (~run[r].touched /\ run[r].pc # "r_restart")

\* C5 as stated: once a restore has unpacked, the entries of the data
\* directory are exactly the members of the archive.
C5_ExactImage ==
    \A r \in Restores :
        run[r].pc = "r_restart" => DOMAIN dataDir = DOMAIN run[r].archive

\* C6 as stated: a backup run that reaches the upload step has stopped the
\* service (before archiving) and started it again (after archiving).
C6_ServiceCycledBeforeUpload ==
    \A r \in Runs :
        run[r].pc = "b_upload" => (run[r].stops >= 1 /\ run[r].starts >= 1)

\* C7 as stated: when a run has terminated, no scratch file it created is
\* left in the scratch area.
C7_NoScratchLeft ==
    \A r \in Runs :
        Finished(r) =>
            \A n \in run[r].created :
                ~(n \in DOMAIN scratch /\ scratch[n].by = r)

\* C8 as stated: after a retention pass every member of the delete-set
\* whose removal does not fail is gone from the remote directory.
C8_SiblingsDeleted ==
    \A r \in Runs :
        run[r].retention.listed =>
            \A n \in run[r].retention.delete \ run[r].retention.fail :
                n \notin DOMAIN remote

\* max_backups as the flat-count policy reads it (10 when unset or not
\* positive).
max_backups_of(c) ==
    IF c.max_backups.ty = "absent" \/ c.max_backups.n <= 0 THEN 10
    ELSE c.max_backups.n

\* C10 as stated: after a retention pass without failures over a listing of
\* N+k backups, with max_backups = N, exactly the N newest are left (the k
\* oldest are gone).
C10_FlatCount ==
    \A r \in Runs :
        (run[r].retention.listed /\ run[r].retention.fail = {}) =>
            LET B == run[r].retention.backups
                S == B \cap DOMAIN remote
                N == max_backups_of(run[r].cfg)
            IN  /\ Cardinality(S) = IF Cardinality(B) > N THEN N
                                    ELSE Cardinality(B)
                /\ \A s \in S, d \in B \ S :
                      parse_backup_date(d) <= parse_backup_date(s)

\* A run is inside the service window from its stop command until it has
\* issued start or restart.
InWindow(r) == run[r].stops > 0 /\ run[r].starts = 0

\* C2 as stated: at most one pipeline at a time is between its stop-service
\* step and its start/restart-service step.
C2_OneInWindow == Cardinality({r \in Runs : InWindow(r)}) <= 1

\* C9 as stated: exactly one 'backup_job' is registered after any sequence
\* of schedule updates, the 03:00 default when the saved schedule is invalid.
C9_ExactlyOneJob ==
    /\ Cardinality(job) = 1
    /\ ~schedule_ok(cfg) => job = {[hour |-> 3, minute |-> 0]}

\* The age of backup b at clock t, by the wall-clock time its name was
\* formatted from (get_current_time_str), in instants.
wall_age(b, t) == instant_now(t) - instant_now(parse_backup_date(b))

\* b lies in the i-th window of the given length: [t - (i+1)*days, t - i*days)
in_window(b, t, days, i) ==
    /\ i * days * DayUnits < wall_age(b, t)
    /\ wall_age(b, t) <= (i + 1) * days * DayUnits

\* b is the maximum-timestamp backup of B in that window
most_recent_in(b, B, t, days, i) ==
    /\ in_window(b, t, days, i)
    /\ \A c \in B : in_window(c, t, days, i)
                        => parse_backup_date(c) <= parse_backup_date(b)

\* C11 as stated: over a one-per-day listing spanning 400 days the keep-set
\* of a retention pass has at most 7 + 4 + 12 = 23 members, holds every
\* backup younger than 7 days, every other member is the maximum-timestamp
\* backup of one of the 4 weekly or 12 monthly windows counted back from
\* now, and every parseable backup outside the keep-set is deleted.
C11_KeepSet ==
    \A r \in Runs :
        (run[r].kind = "retention" /\ run[r].retention.listed) =>
            LET B == run[r].retention.backups
                K == B \ run[r].retention.delete
                t == run[r].at
            IN  /\ Cardinality(K) <= keep_days + keep_weeks + keep_months
                /\ \A b \in B : wall_age(b, t) < keep_days * DayUnits
                                    => b \in K
                /\ \A k \in K :
                      \/ wall_age(k, t) < keep_days * DayUnits
                      \/ \E i \in 0..(keep_weeks - 1) :
                            most_recent_in(k, B, t, 7, i)
                      \/ \E i \in 0..(keep_months - 1) :
                            most_recent_in(k, B, t, 30, i)
                /\ B \ K = run[r].retention.gone

\* Passes r and r + 1 are two retention passes in a row.
two_passes(r) ==
    /\ r + 1 \in Runs
    /\ run[r].kind = "retention" /\ run[r].retention.listed
    /\ run[r + 1].kind = "retention" /\ run[r + 1].retention.listed

\* The tiers backup b falls in at clock t, as the pass computes them.
tier_of(b, t) ==
    [young |-> age_days(t, b) < keep_days,
     weeks |-> {i \in 0..(keep_weeks - 1) :
                  candidates({b}, t, 7 * (i + 1), 7 * i) # {}},
     months |-> {i \in 0..(keep_months - 1) :
                   candidates({b}, t, 30 * (i + 1), 30 * i) # {}}]

is_backup_name(name) ==
    /\ Len(name) >= 1
    /\ Len(name[1]) = 4
    /\ name[1][1] = Word("vw") /\ name[1][2] = Word("backup")
    /\ name[1][3].w = "#" /\ name[1][4].w = "#"

\* C13 as stated: the delete-set of a retention pass holds only entries
\* named vw_backup_<date>_<time>; every other entry of the remote directory
\* survives the pass.
C13_OnlyBackupNamesDeleted ==
    \A r \in Runs :
        \A n \in run[r].retention.delete \cup run[r].retention.gone :
            is_backup_name(n)

\* The reports of an ordinary pipeline failure.
OrdinaryFailures == {"restore_failed", "download_failed", "backup_failed"}

\* A failure report that is none of the ordinary ones.
is_critical(note) == ~note.success /\ note.title \notin OrdinaryFailures

\* C14 as stated: a restore that has modified the data directory and ends
\* with the service down, its start or restart command having failed, has
\* reported a Critical failure, distinct from an ordinary failure report.
C14_CriticalReported ==
    \A r \in Restores :
        (Finished(r) /\ run[r].touched /\ service = "stopped") =>
            \E i \in 1..Len(run[r].notes) : is_critical(run[r].notes[i])

\* C15 as stated: no failure of a pipeline step leaves perform_backup,
\* process_restore_file or download_and_restore as a raised error: no run
\* ends in the background-task runner with an exception, and nothing is
\* raised out of process_restore_file.
C15_NothingPropagates ==
    \A r \in Runs : run[r].pc # "raised" /\ run[r].raised = ""

\* The backup runs that have read their configuration.
BackupRuns ==
    {r \in Runs : run[r].kind \in {"manual", "scheduled"}
                  /\ run[r].pc # "b_begin"}

\* C16: a backup run that found no remote endpoint configured has ended at
\* once: it issued no service command, wrote no scratch file, uploaded and
\* deleted nothing remotely, sent no notification and met no error.
C16_NoEndpointNoOp ==
    \A r \in BackupRuns :
        ~run[r].cfg.webdav_url =>
            /\ run[r].pc = "done"
            /\ run[r].stops = 0 /\ run[r].starts = 0
            /\ run[r].created = {} /\ run[r].tmp_files = {}
            /\ run[r].uploaded = {} /\ run[r].retention = NoPass
            /\ run[r].notes = <<>> /\ run[r].exc = ""
            /\ dataDir = run[r].data_before

\* C16, witness: a backup triggered without a remote endpoint has ended.
C16_SkippedBackup ==
    \E r \in BackupRuns : run[r].pc = "done" /\ ~run[r].cfg.webdav_url

\* C17 as stated: when backup runs overlap, no run packs, encrypts, uploads
\* or removes a scratch file that another run wrote.
C17_OwnScratchOnly ==
    \A r \in Runs :
        run[r].kind \in {"manual", "scheduled"} => run[r].foreign = {}

\* The failures of the archive build: the database export, the packing and
\* the encryption.
BuildFailures == {"CalledProcessError", "OSError"}

\* C18: a backup run whose export, packing or encryption failed has
\* uploaded nothing and run no retention pass; a run that has uploaded has
\* built its archive (and, with a passphrase, the encrypted file), and the
\* object it uploaded is the whole archive.
C18_UploadAfterBuild ==
    \A r \in BackupRuns :
        /\ run[r].exc \in BuildFailures =>
              run[r].uploaded = {} /\ run[r].retention = NoPass
        /\ run[r].uploaded # {} =>
              /\ run[r].local \in run[r].created
              /\ run[r].cfg.encryption_password # ""
                    => append_enc(run[r].local) \in run[r].created
        /\ run[r].pc = "b_retention" =>
              /\ run[r].backup_name \in DOMAIN remote
              /\ remote[run[r].backup_name].file.t = "targz"
              /\ remote[run[r].backup_name].file.entries = run[r].archive

\* C18, witness: a backup run whose archive build failed has ended.
C18_BuildFailed ==
    \E r \in BackupRuns :
        run[r].pc = "done" /\ run[r].exc \in BuildFailures

\* C19: with a passphrase configured when the run starts, the one object a
\* backup run uploads is the encrypted file, under a name that ends with
\* .enc; without a passphrase the uploaded name has no .enc and the object
\* is the plain archive.
C19_EncryptedIffPassphrase ==
    \A r \in BackupRuns :
        LET pw == run[r].cfg.encryption_password IN
        /\ Cardinality(run[r].uploaded) <= 1
        /\ \A n \in run[r].uploaded :
              /\ endswith_enc(n) <=> pw # ""
              /\ n = IF pw # "" THEN append_enc(run[r].local)
                     ELSE run[r].local
              /\ run[r].pc = "b_retention" =>
                    /\ n \in DOMAIN remote
                    /\ remote[n].file.key = get_fernet_key(pw)

\* C19, witness: a run with a passphrase has uploaded its encrypted file.
C19_EncryptedUpload ==
    \E r \in BackupRuns :
        /\ run[r].cfg.encryption_password # ""
        /\ run[r].pc = "b_retention"
        /\ run[r].uploaded = {append_enc(run[r].local)}

\* C20: once a backup run with a remote endpoint has got past its retention
\* pass without an error, the name it uploaded is not in the delete-set and
\* is in the remote directory.
C20_UploadSurvivesRetention ==
    \A r \in BackupRuns :
        (/\ run[r].cfg.webdav_url
         /\ run[r].pc \in {"b_finally", "done"}
         /\ run[r].exc = "") =>
            /\ run[r].uploaded # {}
            /\ run[r].uploaded \subseteq DOMAIN remote
            /\ run[r].uploaded \cap run[r].retention.delete = {}

\* C20, witness: a backup run has ended whose retention pass deleted older
\* backups.
C20_PrunedAfterUpload ==
    \E r \in BackupRuns :
        /\ run[r].pc = "done" /\ run[r].exc = ""
        /\ run[r].retention.gone # {}
        /\ run[r].uploaded \subseteq DOMAIN remote


====
